---- MODULE Spec2Model ----
(***************************************************************************)
(* Model of require/resolve.go: the NodeJS module search algorithm of      *)
(* RequireModule (resolve, loadNative, loadAsFile, loadAsDirectory,        *)
(* loadNodeModules, loadModule, loadModuleFile).                           *)
(*                                                                         *)
(* A string is modelled by the sequence of its "/"-separated segments:     *)
(* "./a/b.js" is <<".", "a", "b.js">>, "/" is <<"", "">>, "" is <<"">>.     *)
(* The concatenation x + "/" + y of two strings is then x \o y.            *)
(***************************************************************************)
EXTENDS Integers, Sequences, FiniteSets, TLC

\* ------------------------------------------------------------------------
\* Strings and the path/filepath functions of the Go standard library.
\* ------------------------------------------------------------------------
EmptyString == <<"">>
Dot == <<".">>
DotDot == <<"..">>
Root == <<"", "">>

Last(q) == q[Len(q)]
Front(q) == SubSeq(q, 1, Len(q) - 1)

\* strings.HasPrefix(str, "/"), (str, "./") and (str, "../")
HasPrefixSlash(str) == Len(str) >= 2 /\ str[1] = ""
HasPrefixDotSlash(str) == Len(str) >= 2 /\ str[1] = "."
HasPrefixDotDotSlash(str) == Len(str) >= 2 /\ str[1] = ".."

\* The element loop of filepath.Clean: "" and "." are dropped, ".." removes
\* the element before it, is dropped at the root and is kept otherwise.
RECURSIVE CleanSegs(_, _, _)
CleanSegs(segs, rooted, out) ==
    IF segs = <<>> THEN out
    ELSE LET e == Head(segs) IN
         CleanSegs(Tail(segs), rooted,
             IF e = "" \/ e = "." THEN out
             ELSE IF e = ".."
                  THEN IF out # <<>> /\ Last(out) # ".." THEN Front(out)
                       ELSE IF rooted THEN out
                       ELSE Append(out, "..")
                  ELSE Append(out, e))

\* filepath.Clean
Clean(str) ==
    LET rooted == HasPrefixSlash(str)
        out == CleanSegs(str, rooted, <<>>)
    IN  IF rooted THEN (IF out = <<>> THEN Root ELSE <<"">> \o out)
        ELSE IF out = <<>> THEN Dot ELSE out

\* filepath.Join of two elements: empty elements are ignored, the rest is
\* joined with "/" and cleaned.
Join(a, b) ==
    IF a = EmptyString THEN (IF b = EmptyString THEN EmptyString ELSE Clean(b))
    ELSE IF b = EmptyString THEN Clean(a)
    ELSE Clean(a \o b)

RECURSIVE StripTrailingSlashes(_)
StripTrailingSlashes(str) ==
    IF Len(str) > 1 /\ Last(str) = "" THEN StripTrailingSlashes(Front(str))
    ELSE str

\* filepath.Base
Base(str) ==
    IF str = EmptyString THEN Dot
    ELSE LET t == StripTrailingSlashes(str) IN
         IF t = EmptyString THEN Root ELSE <<Last(t)>>

\* filepath.Dir: the part up to and including the last separator, cleaned.
Dir(str) ==
    IF Len(str) = 1 THEN Clean(EmptyString)
    ELSE Clean(Front(str) \o <<"">>)

\* path + ext, for an extension without separator
AddExt(str, ext) == [str EXCEPT ![Len(str)] = @ \o ext]

\* ------------------------------------------------------------------------
\* The world outside the resolver: source provider, native loader tables,
\* global folders, and the scripts of the host.
\* ------------------------------------------------------------------------
Set == [op |-> "set", spec |-> <<>>]
Throw == [op |-> "throw", spec |-> <<>>]
Req(spec) == [op |-> "require", spec |-> spec]

\* A source file is a module body (a sequence of steps: assign a property of
\* exports, call require, throw), a program that yields no function, or a
\* package manifest with its "main" ("" when it has none).
Js(body) == [kind |-> "js", body |-> body, main |-> EmptyString]
NotCallable == [kind |-> "notfunc", body |-> <<>>, main |-> EmptyString]
Manifest(main) == [kind |-> "json", body |-> <<>>, main |-> main]
\* bytes that are no JSON
Malformed == [kind |-> "garbage", body |-> <<>>, main |-> EmptyString]

AllFiles ==
    { <<"a.js">>, <<"b.js">>, <<"c.js">>, <<"d.js">>, <<"lib", "d.js">>,
      <<"lib", "a.js">>, <<"t">>, <<"t.js">>, <<"fs.js">>, <<"lib", "u.js">>,
      <<"pkg", "package.json">>, <<"pkg", "lib", "foo.js">>,
      <<"pkg", "index.js">>, <<"node_modules", "p", "index.js">>,
      <<"lib", "node_modules", "p.js">>, <<"g", "r.js">>,
      <<"node_modules", "r.js">>, <<"nf.js">>, <<"lib", "c.js">>,
      <<"dj", "index.json">>, <<"bad", "package.json">>,
      <<"bad", "index.js">>, <<"bad", "index.json">>,
      <<"em", "package.json">>, <<"em", "index.json">>,
      <<"pm", "package.json">>, <<"pm", "index.js">>,
      <<"pq", "package.json">>, <<"pq", "index.js">>,
      <<"pq", "sub", "index.json">>,
      <<"x">>, <<"x.js">>, <<"x.json">>, <<"x", "index.js">>,
      <<"lib", "node_modules", "thr.js">> }

Content(file) ==
    CASE file = <<"a.js">> ->
           Js(<<Set, Req(<<".", "b.js">>), Set, Req(<<".", "c.js">>)>>)
      [] file = <<"b.js">> -> Js(<<Req(<<".", "a">>)>>)
      [] file = <<"lib", "d.js">> -> Js(<<Set, Req(<<".", "a.js">>), Set>>)
      [] file = <<"lib", "a.js">> -> Js(<<Req(<<".", "d.js">>), Set>>)
      [] file = <<"t">> -> Js(<<Set, Throw>>)
      [] file = <<"lib", "u.js">> -> Js(<<Req(<<"..", "fs">>)>>)
      [] file = <<"pkg", "package.json">> -> Manifest(<<"lib", "foo.js">>)
      [] file = <<"nf.js">> -> NotCallable
      [] file = <<"bad", "package.json">> -> Malformed
      [] file = <<"em", "package.json">> -> Manifest(EmptyString)
      [] file = <<"pm", "package.json">> -> Manifest(<<"nomain">>)
      [] file = <<"pq", "package.json">> -> Manifest(<<"sub">>)
      [] file = <<"lib", "node_modules", "thr.js">> -> Js(<<Throw>>)
      [] OTHER -> Js(<<Set>>)

\* Files the source provider can make available later.
Creatable == { <<"c.js">>, <<"lib", "c.js">> }
SearchCreatable == { <<"x">> }

\* r.r.native (the registry's own loaders) and native (the process-wide ones)
RegistryNative == { <<"util">> }
GlobalNative == { <<"fs">>, <<"util">> }

\* r.r.globalFolders
globalFolders == << <<"g">> >>

\* The source names of the host's own scripts; NoScript is a call of the
\* host made with no script running.
NoScript == <<>>
LibScript == <<"lib", "top.js">>
AbsScript == <<"", "abs", "deep", "s.js">>
UpDirScript == <<"..", "x", "s.js">>
UpScript == <<"..", "s.js">>
NmScript == <<"lib", "node_modules", "s.js">>

\* The require calls the host makes: a specifier and the script calling.
Requests ==
    { <<spec, NoScript>> : spec \in
        { <<".", "a.js">>, <<".", "c.js">>, <<".", "d.js">>,
          <<".", "lib", "d.js">>, <<".", "t">>, <<"fs">>, <<".", "fs">>,
          <<".", "lib", "u.js">>, <<".", "pkg">>, <<"p">>, <<"r">>,
          <<"util">>, <<".", "nf.js">> } }
    \cup { <<spec, LibScript>> : spec \in
        { <<".", "c.js">>, <<".", "d.js">>, <<"p">> } }

\* The require calls of a host that exercises the searches: directories
\* with and without manifest, the node_modules ascent from scripts in
\* several directories, and the empty specifier.
SearchRequests ==
    { <<spec, NoScript>> : spec \in
        { <<".", "dj">>, <<".", "bad">>, <<".", "em">>, <<".", "pm">>,
          <<".", "pq">>, <<".", "x">>, EmptyString, <<"zz">>, <<"p">> } }
    \cup { <<(<<"zz">>), script>> : script \in
        { LibScript, AbsScript, UpDirScript, UpScript, NmScript } }
    \cup { <<spec, NmScript>> : spec \in { <<"thr">>, <<"p">> } }

\* ------------------------------------------------------------------------
\* Errors, maps and module objects
\* ------------------------------------------------------------------------
Err(kind, at) == [kind |-> kind, at |-> at]
nil == Err("nil", <<>>)
InvalidModuleError == Err("InvalidModuleError", <<>>)
IllegalModuleNameError == Err("IllegalModuleNameError", <<>>)
\* the source provider's error for a path it cannot read
NotFound(path) == Err("NotFound", path)
\* the exception a module body throws
Thrown(path) == Err("Thrown", path)

EmptyMap == [k \in {} |-> 0]
Get(m, k) == IF k \in DOMAIN m THEN m[k] ELSE 0
Put(m, k, v) == [x \in DOMAIN m \cup {k} |-> IF x = k THEN v ELSE m[x]]
Delete(m, k) == [x \in DOMAIN m \ {k} |-> m[x]]

VARIABLES
    modules,      \* r.modules: path -> module object
    nodeModules,  \* r.nodeModules: path -> module object
    heap,         \* the module objects created so far, by identity 1..Len
    fs,           \* the files the source provider has
    log,          \* what the last require call did, in order
    firstRet,     \* (start, path) -> first module a relative require returned
    missed,       \* the requests that failed with no candidate available
    calls         \* the number of require calls the host has made

vars == <<modules, nodeModules, heap, fs, log, firstRet, missed, calls>>

\* The result of a function of the resolver: the state it leaves, the module
\* it returns (0 is nil) and its error.
Res(s, module, err) == [s |-> s, module |-> module, err |-> err]

Event(ev, s, path, aux, h, err) ==
    [ev |-> ev, depth |-> s.depth, path |-> path, aux |-> aux,
     h |-> h, err |-> err]
Log(s, e) == [s EXCEPT !.log = Append(@, e)]

\* With(x, F) is F(x): the value of a call, named once and used many times.
With(x, F(_)) == F(x)

RECURSIVE resolve(_, _), loadAsFileOrDirectory(_, _), loadAsFile(_, _),
          loadIndex(_, _), loadAsDirectory(_, _), loadNodeModule(_, _, _),
          loadNodeModules(_, _, _), loadModule(_, _), loadModuleFile(_, _, _),
          call(_, _, _, _), ascend(_, _, _), globals(_, _, _)

\* r.runtime.NewObject() with a fresh, empty exports
createModuleObject(s) ==
    Res([s EXCEPT !.heap = Append(@, [origin |-> <<>>, loader |-> "none",
                                      exports |-> 0, state |-> "pending",
                                      started |-> FALSE])],
        Len(s.heap) + 1, nil)

\* An object whose body never started was seen by nobody: its identity is
\* given back when its cache entry is deleted.
Release(s, h) ==
    IF ~s.heap[h].started /\ h = Len(s.heap)
    THEN [s EXCEPT !.heap = Front(@)]
    ELSE [s EXCEPT !.heap[h].state = "evicted"]

\* what the source provider answers for a path: it has the file or not
Provide(path) == IF path \in fs THEN nil ELSE NotFound(path)

\* The source provider, r.r.getSource and r.r.getCompiledSource: the bytes or
\* the program of a file it has, an error otherwise.
getSource(s, path) ==
    Res(Log(s, Event("getSource", s, path, <<>>, 0, Provide(path))),
        0, Provide(path))

getCompiledSource(s, path) ==
    Res(Log(s, Event("getCompiledSource", s, path, <<>>, 0, Provide(path))),
        0, Provide(path))

\* r.runtime.CaptureCallStack and the directory of the caller's source name
getCurrentModulePath(s) ==
    Res(Log(s, Event("CaptureCallStack", s, <<>>, <<>>, 0, nil)),
        IF s.stack = <<>> THEN Dot ELSE Dir(Last(s.stack)), nil)

\* filepathClean of the specifier: "." and ".." segments collapsed; the
\* empty specifier stays empty.
filepathClean(str) == IF str = EmptyString THEN EmptyString ELSE Clean(str)

\* Loader with a plausible slip: the process-wide table is consulted first.
Loader_GlobalFirst(path) ==
    IF path \in GlobalNative THEN "global"
    ELSE IF path \in RegistryNative THEN "registry"
    ELSE "none"

\* r.r.native[path], and native[path] when the registry has no loader
Loader(path) ==
    IF path \in RegistryNative THEN "registry"
    ELSE IF path \in GlobalNative THEN "global"
    ELSE "none"

\* ldr(r.runtime, module): the loader fills the exports of the module
RunLoader(s, path, module) ==
    Log([s EXCEPT !.heap[module] =
            [origin |-> path, loader |-> Loader(path), exports |-> 1,
             state |-> "complete", started |-> TRUE]],
        Event("native", s, path, <<Loader(path)>>, module, nil))

loadNative(s0, path) ==
    With(Log(s0, Event("loadNative", s0, path, <<>>, 0, nil)), LAMBDA s :
      IF Get(s.modules, path) # 0 THEN Res(s, Get(s.modules, path), nil)
      ELSE IF Loader(path) # "none"
           THEN With(createModuleObject(s), LAMBDA c :
                  Res(RunLoader([c.s EXCEPT
                                    !.modules = Put(@, path, c.module)],
                                path, c.module),
                      c.module, nil))
           ELSE Res(s, 0, InvalidModuleError))

\* The directory a specifier is relative to: that of the caller's source.
callerDir(s, origPath) ==
    IF HasPrefixSlash(origPath) THEN Root
    ELSE IF s.stack = <<>> THEN Dot ELSE Dir(Last(s.stack))

\* resolve's last statement, with the call's outcome recorded
return(r, origPath) ==
    [r EXCEPT !.s = Log(@, Event("return", @, origPath,
                                 callerDir(@, origPath), r.module, r.err))]

IsRelative(origPath) ==
    \/ HasPrefixDotSlash(origPath) \/ HasPrefixSlash(origPath)
    \/ HasPrefixDotDotSlash(origPath)
    \/ origPath = Dot \/ origPath = DotDot

\* resolve from "var start string" on: g is the state with the start
\* directory as its module
resolveFrom(g, origPath, path, p) ==
    IF IsRelative(origPath)
    THEN IF Get(g.s.modules, p) # 0
         THEN Res(g.s, Get(g.s.modules, p), nil)
         ELSE With(loadAsFileOrDirectory(g.s, p), LAMBDA l :
                IF l.err = nil
                THEN [l EXCEPT !.s.modules = Put(@, p, l.module)]
                ELSE l)
    ELSE IF Get(g.s.nodeModules, p) # 0
         THEN Res(g.s, Get(g.s.nodeModules, p), nil)
         ELSE With(loadNodeModules(g.s, path, g.module), LAMBDA l :
                IF l.err = nil
                THEN [l EXCEPT !.s.nodeModules = Put(@, p, l.module)]
                ELSE l)

\* resolve with a plausible slip: the empty path is not rejected
resolve_NoEmptyCheck(s, origPath) ==
    With(filepathClean(origPath), LAMBDA path :
    With(Log(s, Event("require", s, origPath, <<>>, 0, nil)), LAMBDA s1 :
      With(loadNative(s1, path), LAMBDA n :
        IF n.err = nil THEN return(n, origPath)
        ELSE With(IF HasPrefixSlash(origPath) THEN Res(n.s, Root, nil)
                  ELSE getCurrentModulePath(n.s), LAMBDA g :
               return(resolveFrom(g, origPath, path, Join(g.module, path)),
                      origPath)))))

resolve(s, origPath) ==
    With(filepathClean(origPath), LAMBDA path :
    With(Log(s, Event("require", s, origPath, <<>>, 0, nil)), LAMBDA s1 :
      IF path = EmptyString
      THEN return(Res(s1, 0, IllegalModuleNameError), origPath)
      ELSE With(loadNative(s1, path), LAMBDA n :
             IF n.err = nil THEN return(n, origPath)
             ELSE With(IF HasPrefixSlash(origPath) THEN Res(n.s, Root, nil)
                       ELSE getCurrentModulePath(n.s), LAMBDA g :
                    return(resolveFrom(g, origPath, path,
                                       Join(g.module, path)),
                           origPath)))))

loadAsFileOrDirectory(s, path) ==
    With(loadAsFile(Log(s, Event("loadAsFileOrDirectory", s, path, <<>>, 0,
                                 nil)),
                    path), LAMBDA f :
      IF f.err = nil THEN f
      ELSE loadAsDirectory(f.s, path))

\* loadAsFile with a plausible slip: the data extension is tried before the
\* source extension.
loadAsFile_JsonFirst(s, path) ==
    With(loadModule(s, path), LAMBDA m1 :
      IF m1.err = nil THEN m1
      ELSE With(loadModule(m1.s, AddExt(path, ".json")), LAMBDA m2 :
             IF m2.err = nil THEN m2
             ELSE loadModule(m2.s, AddExt(path, ".js"))))

loadAsFile(s, path) ==
    With(loadModule(s, path), LAMBDA m1 :
      IF m1.err = nil THEN m1
      ELSE With(loadModule(m1.s, AddExt(path, ".js")), LAMBDA m2 :
             IF m2.err = nil THEN m2
             ELSE loadModule(m2.s, AddExt(path, ".json"))))

\* loadIndex with a plausible slip: the data extension is tried first.
loadIndex_JsonFirst(s, path) ==
    With(loadModule(s, Join(path, <<"index.json">>)), LAMBDA m1 :
      IF m1.err = nil THEN m1
      ELSE loadModule(m1.s, Join(path, <<"index.js">>)))

loadIndex(s, path) ==
    With(loadModule(s, Join(path, <<"index.js">>)), LAMBDA m1 :
      IF m1.err = nil THEN m1
      ELSE loadModule(m1.s, Join(path, <<"index.json">>)))

\* json.Unmarshal of the manifest into pkg and pkg.Main: an error for bytes
\* that are no JSON object, "" for a manifest without main.
Unmarshal(file) ==
    IF Content(file).kind = "json" THEN Res(0, Content(file).main, nil)
    ELSE Res(0, EmptyString, Err("SyntaxError", file))

\* loadAsDirectory with a plausible slip: the index of the directory is
\* tried before the main of its manifest.
loadAsDirectory_IndexFirst(s, path) ==
    With(Join(path, <<"package.json">>), LAMBDA p :
    With(getSource(s, p), LAMBDA buf :
      IF buf.err # nil THEN loadIndex(buf.s, path)
      ELSE With(Unmarshal(p), LAMBDA pkg :
             IF pkg.err # nil \/ pkg.module = EmptyString
             THEN loadIndex(buf.s, path)
             ELSE With(loadIndex(buf.s, path), LAMBDA x :
                    IF x.err = nil THEN x
                    ELSE loadAsFile(x.s, Join(path, pkg.module))))))

\* loadAsDirectory with a plausible slip: after the main failed, the index
\* of the directory itself is tried.
loadAsDirectory_DirIndex(s, path) ==
    With(Join(path, <<"package.json">>), LAMBDA p :
    With(getSource(s, p), LAMBDA buf :
      IF buf.err # nil THEN loadIndex(buf.s, path)
      ELSE With(Unmarshal(p), LAMBDA pkg :
             IF pkg.err # nil \/ pkg.module = EmptyString
             THEN loadIndex(buf.s, path)
             ELSE With(Join(path, pkg.module), LAMBDA m :
                  With(loadAsFile(buf.s, m), LAMBDA f :
                    IF f.err = nil THEN f
                    ELSE loadIndex(f.s, path))))))

loadAsDirectory(s, path) ==
    With(Join(path, <<"package.json">>), LAMBDA p :
    With(getSource(s, p), LAMBDA buf :
      IF buf.err # nil THEN loadIndex(buf.s, path)
      ELSE With(Unmarshal(p), LAMBDA pkg :
             IF pkg.err # nil \/ pkg.module = EmptyString
             THEN loadIndex(buf.s, path)
             ELSE With(Join(path, pkg.module), LAMBDA m :
                  With(loadAsFile(buf.s, m), LAMBDA f :
                    IF f.err = nil THEN f
                    ELSE loadIndex(f.s, m))))))

loadNodeModule(s, path, start) ==
    loadAsFileOrDirectory(s, Join(start, path))

\* the first loop of loadNodeModules, from the i-th global folder on
globals(s, path, i) ==
    IF i > Len(globalFolders) THEN Res(s, 0, InvalidModuleError)
    ELSE With(loadNodeModule(s, path, globalFolders[i]), LAMBDA m :
           IF m.err = nil THEN m
           ELSE globals(m.s, path, i + 1))

\* the second loop with a plausible slip: ".." is not a stop
ascend_NoDotDotStop(s, path, start) ==
    With(loadNodeModule(s, path,
                        IF Base(start) # <<"node_modules">>
                        THEN Join(start, <<"node_modules">>)
                        ELSE start), LAMBDA m :
      IF m.err = nil THEN m
      ELSE IF Dir(start) = start THEN Res(m.s, 0, InvalidModuleError)
      ELSE ascend(m.s, path, Dir(start)))

\* the second loop of loadNodeModules, from the directory start on
ascend(s, path, start) ==
    With(loadNodeModule(s, path,
                        IF Base(start) # <<"node_modules">>
                        THEN Join(start, <<"node_modules">>)
                        ELSE start), LAMBDA m :
      IF m.err = nil THEN m
      ELSE IF start = DotDot THEN Res(m.s, 0, InvalidModuleError)
      ELSE IF Dir(start) = start THEN Res(m.s, 0, InvalidModuleError)
      ELSE ascend(m.s, path, Dir(start)))

\* loadNodeModules with a plausible slip: the ascent runs before the global
\* folders.
loadNodeModules_AscentFirst(s, path, start) ==
    With(ascend(s, path, start), LAMBDA g :
      IF g.err = nil THEN g
      ELSE globals(g.s, path, 1))

loadNodeModules(s, path, start) ==
    With(globals(s, path, 1), LAMBDA g :
      IF g.err = nil THEN g
      ELSE ascend(g.s, path, start))

\* loadNew with a plausible slip: a failed load puts r.modules back to what
\* it was before the load, dropping what the body's own requires loaded.
loadNew_Rollback(s, path, module) ==
    With(loadModuleFile(s, path, module), LAMBDA e :
      IF e.err # nil
      THEN With(Release([e.s EXCEPT !.modules = Delete(s.modules, path)],
                        module),
                LAMBDA s2 :
             Res(Log(s2, Event("loadModule", s2, path, <<"new">>, 0, e.err)),
                 0, e.err))
      ELSE With([e.s EXCEPT !.heap[module].state = "complete"], LAMBDA s2 :
             Res(Log(s2, Event("loadModule", s2, path, <<"new">>, module, nil)),
                 module, nil)))

\* loadModule after r.modules[path] = module: the file is run, and the entry
\* is deleted when that fails
loadNew(s, path, module) ==
    With(loadModuleFile(s, path, module), LAMBDA e :
      IF e.err # nil
      THEN With(Release([e.s EXCEPT !.modules = Delete(@, path)], module),
                LAMBDA s2 :
             Res(Log(s2, Event("loadModule", s2, path, <<"new">>, 0, e.err)),
                 0, e.err))
      ELSE With([e.s EXCEPT !.heap[module].state = "complete"], LAMBDA s2 :
             Res(Log(s2, Event("loadModule", s2, path, <<"new">>, module, nil)),
                 module, nil)))

loadModule(s, path) ==
    IF Get(s.modules, path) = 0
    THEN With(createModuleObject(s), LAMBDA c :
           loadNew([c.s EXCEPT !.modules = Put(@, path, c.module),
                               !.heap[c.module].origin = path,
                               !.heap[c.module].loader = "file"],
                   path, c.module))
    ELSE Res(Log(s, Event("loadModule", s, path, <<"cached">>,
                          Get(s.modules, path), nil)),
             Get(s.modules, path), nil)

\* The module function's run, from its i-th step on: jsModule is "module",
\* its exports are "exports" and "this", and "require" is resolve on the
\* caller's behalf, whose error is thrown into the body.
call(s, path, jsModule, i) ==
    IF i > Len(Content(path).body) THEN Res(s, 0, nil)
    ELSE IF Content(path).body[i].op = "set"
         THEN call([s EXCEPT !.heap[jsModule].exports = @ + 1],
                   path, jsModule, i + 1)
    ELSE IF Content(path).body[i].op = "require"
         THEN With(resolve(s, Content(path).body[i].spec), LAMBDA r :
                IF r.err # nil THEN Res(r.s, 0, r.err)
                ELSE call(r.s, path, jsModule, i + 1))
    ELSE Res(s, 0, Thrown(path))

\* the state in which the module function of path starts
Called(s, path, jsModule) ==
    Log([s EXCEPT !.stack = Append(@, path), !.depth = @ + 1,
                  !.heap[jsModule].started = TRUE,
                  !.heap[jsModule].state = "executing"],
        Event("call", s, path, <<>>, jsModule, nil))

loadModuleFile(s, path, jsModule) ==
    With(getCompiledSource(s, path), LAMBDA prg :
      IF prg.err # nil THEN Res(prg.s, 0, prg.err)
      ELSE IF Content(path).kind # "notfunc"
           THEN With(call(Called(prg.s, path, jsModule), path, jsModule, 1),
                     LAMBDA c :
                  Res([c.s EXCEPT !.stack = Front(@), !.depth = @ - 1],
                      0, c.err))
           ELSE Res(prg.s, 0, InvalidModuleError))

\* ------------------------------------------------------------------------
\* The state machine: the host requires modules and adds files.
\* ------------------------------------------------------------------------
\* the number of require calls the host makes
MaxCalls == 3

\* how many times the body of a file has been started
Runs(hp, file) ==
    Cardinality({h \in 1..Len(hp) :
        hp[h].loader = "file" /\ hp[h].origin = file /\ hp[h].started})

Key(e) == <<e.aux, filepathClean(e.path)>>

\* the first module each (start directory, normalized path) returned
RECURSIVE Remember(_, _, _)
Remember(fr, evs, hp) ==
    IF evs = <<>> THEN fr
    ELSE LET e == Head(evs) IN
         Remember(IF /\ e.ev = "return" /\ e.err = nil /\ IsRelative(e.path)
                     /\ Key(e) \notin DOMAIN fr
                  THEN Put(fr, Key(e),
                           [h |-> e.h, runs |-> Runs(hp, hp[e.h].origin)])
                  ELSE fr,
                  Tail(evs), hp)

\* the provider had none of the files the call asked it for
NoCandidate(evs) ==
    \A i \in 1..Len(evs) :
        evs[i].ev \in {"getSource", "getCompiledSource"} => evs[i].err # nil

Init ==
    /\ modules = EmptyMap
    /\ nodeModules = EmptyMap
    /\ heap = <<>>
    /\ fs = AllFiles \ (Creatable \cup SearchCreatable)
    /\ log = <<>>
    /\ firstRet = EmptyMap
    /\ missed = {}
    /\ calls = 0

\* The resolver's state as a call of the host finds it.
Enter(script) ==
    [modules |-> modules, nodeModules |-> nodeModules, heap |-> heap,
     log |-> <<>>, stack |-> IF script = NoScript THEN <<>> ELSE <<script>>,
     depth |-> 0]

\* A require call of the host: from a script of its own, or with no script
\* running (RequireModule.Require).
Require(spec, script) ==
    /\ calls < MaxCalls
    /\ calls' = calls + 1
    /\ \E r \in {resolve(Enter(script), spec)} :
           /\ modules' = r.s.modules
           /\ nodeModules' = r.s.nodeModules
           /\ heap' = r.s.heap
           /\ log' = r.s.log
           /\ firstRet' = Remember(firstRet, r.s.log, r.s.heap)
           /\ missed' = IF r.err # nil /\ NoCandidate(r.s.log)
                        THEN missed \cup {<<spec, callerDir(Enter(script), spec)>>}
                        ELSE missed
    /\ UNCHANGED fs

\* The source provider gets a file it did not have.
CreateFile(file) ==
    /\ file \notin fs
    /\ fs' = fs \cup {file}
    /\ UNCHANGED <<modules, nodeModules, heap, log, firstRet, missed, calls>>

Next ==
    \/ \E req \in Requests : Require(req[1], req[2])
    \/ \E file \in Creatable : CreateFile(file)

Spec == Init /\ [][Next]_vars

\* The host that exercises the searches.
SearchNext ==
    \/ \E req \in SearchRequests : Require(req[1], req[2])
    \/ \E file \in SearchCreatable : CreateFile(file)

SearchSpec == Init /\ [][SearchNext]_vars

\* ------------------------------------------------------------------------
\* Reading the log of a call
\* ------------------------------------------------------------------------
Idx == 1..Len(log)
IsReturn(i) == log[i].ev = "return"
\* the outcome of the host's own call
Outcome == Last(log)
\* a call of the host has been made
Called0 == log # <<>>

\* the module object is the one of a file, and the one of a native loader
IsFileModule(h) == h # 0 /\ heap[h].loader = "file"
IsNativeModule(h) == h # 0 /\ heap[h].loader \in {"registry", "global"}

\* the return of the resolve call that starts at i
ReturnOf(i) ==
    CHOOSE j \in Idx :
        /\ j > i /\ IsReturn(j) /\ log[j].depth = log[i].depth
        /\ \A k \in (i + 1)..(j - 1) :
               ~(IsReturn(k) /\ log[k].depth = log[i].depth)

\* at i, the body of file (started at j) is still running
RunningSince(j, i, file) ==
    /\ j < i /\ log[j].ev = "call" /\ log[j].path = file
    /\ \A k \in (j + 1)..i :
           ~(log[k].ev = "loadModule" /\ log[k].path = file
             /\ log[k].depth = log[j].depth /\ log[k].aux = <<"new">>)

\* The file a relative specifier names, for a caller in the directory start:
\* the path itself, or else with ".js", or else with ".json".
Named(start, origPath) ==
    LET p == Join(start, filepathClean(origPath)) IN
    IF p \in fs THEN p
    ELSE IF AddExt(p, ".js") \in fs THEN AddExt(p, ".js")
    ELSE IF AddExt(p, ".json") \in fs THEN AddExt(p, ".json")
    ELSE <<>>

\* ------------------------------------------------------------------------
\* C1: two successful requires of a relative or absolute specifier with the
\* same normalized path from the same start directory return the same module
\* object, and the body of the module has not run again in between.
\* ------------------------------------------------------------------------
C1_SameHandleTwice ==
    \A i \in Idx :
        (IsReturn(i) /\ log[i].err = nil /\ IsRelative(log[i].path)) =>
            /\ Key(log[i]) \in DOMAIN firstRet
            /\ firstRet[Key(log[i])].h = log[i].h
            /\ Runs(heap, heap[log[i].h].origin) = firstRet[Key(log[i])].runs

\* ------------------------------------------------------------------------
\* C2: while the body of a file A is running, a nested require of a
\* specifier that names A ends without error and returns the module object
\* whose body is running, and A's body is not started again.
\* ------------------------------------------------------------------------
C2_CycleReturnsRunning ==
    \A i \in Idx : \A j \in Idx :
        (/\ IsReturn(i) /\ IsRelative(log[i].path)
         /\ RunningSince(j, i, Named(log[i].aux, log[i].path))) =>
            /\ log[i].err = nil
            /\ log[i].h = log[j].h
            /\ \A k \in (j + 1)..i :
                   ~(log[k].ev = "call" /\ log[k].path = log[j].path)

\* ------------------------------------------------------------------------
\* C3: after a failed load no key of either cache maps to the module object
\* of the failed load.
\* ------------------------------------------------------------------------
C3_NoFailedModuleCached ==
    /\ \A k \in DOMAIN modules : heap[modules[k]].state # "evicted"
    /\ \A k \in DOMAIN nodeModules : heap[nodeModules[k]].state # "evicted"

\* ------------------------------------------------------------------------
\* C4: when the body of a file the host's require reached raises an error,
\* the require fails with exactly that error.
\* ------------------------------------------------------------------------
BodyRaised(i) ==
    /\ log[i].ev = "loadModule" /\ log[i].err # nil
    /\ \E j \in 1..(i - 1) :
           /\ log[j].depth = log[i].depth
           /\ log[j].ev = "call" /\ log[j].path = log[i].path
           /\ \A k \in (j + 1)..(i - 1) :
                  ~(/\ log[k].ev = "loadModule" /\ log[k].path = log[i].path
                    /\ log[k].depth = log[i].depth)

C4_BodyErrorVerbatim ==
    \A i \in Idx :
        (BodyRaised(i) /\ log[i].depth = 0) => Outcome.err = log[i].err

\* ------------------------------------------------------------------------
\* C5: a require that fails because the provider has none of its candidates
\* leaves both caches as they were, and once the provider has the file the
\* specifier names, the same require from the same directory loads it.
\* ------------------------------------------------------------------------
\* the body of the file neither requires nor throws
Loadable(file) ==
    /\ file \in fs /\ Content(file).kind = "js"
    /\ \A i \in 1..Len(Content(file).body) : Content(file).body[i].op = "set"

FailedNoCandidate(evs) ==
    /\ evs # <<>> /\ Last(evs).err # nil /\ NoCandidate(evs)
    /\ \E i \in 1..Len(evs) : evs[i].ev = "getCompiledSource"

RetryLoads ==
    (/\ Called0 /\ <<Outcome.path, Outcome.aux>> \in missed
     /\ IsRelative(Outcome.path)
     /\ Loadable(Named(Outcome.aux, Outcome.path))) =>
        /\ Outcome.err = nil
        /\ IsFileModule(Outcome.h)
        /\ heap[Outcome.h].origin = Named(Outcome.aux, Outcome.path)

C5_MissLeavesNoTrace ==
    [][/\ (calls' = calls + 1 /\ FailedNoCandidate(log')) =>
              (modules' = modules /\ nodeModules' = nodeModules)
       /\ (calls' = calls + 1) => RetryLoads']_vars

\* ------------------------------------------------------------------------
\* C6: the caches never hold two different module objects of the same file.
\* ------------------------------------------------------------------------
Cached == {modules[k] : k \in DOMAIN modules}
              \cup {nodeModules[k] : k \in DOMAIN nodeModules}

C6_OneHandlePerFile ==
    \A h1 \in Cached : \A h2 \in Cached :
        (/\ IsFileModule(h1) /\ IsFileModule(h2)
         /\ heap[h1].origin = heap[h2].origin) => h1 = h2

\* ------------------------------------------------------------------------
\* C7: a bare specifier that misses the bare-specifier cache is searched in
\* the global folders in their order, then in the node_modules directory of
\* the start directory and of its ancestors from nearest to farthest; the
\* module returned is the one of the first place that loads, and nothing is
\* tried after it.
\* ------------------------------------------------------------------------
RECURSIVE AncestorChain(_)
AncestorChain(dir) ==
    IF dir = DotDot \/ Dir(dir) = dir THEN <<dir>>
    ELSE <<dir>> \o AncestorChain(Dir(dir))

NodeModulesOf(dir) ==
    IF Base(dir) = <<"node_modules">> THEN dir
    ELSE Join(dir, <<"node_modules">>)

\* the places a bare specifier is looked for, in the order of the claim
Places(start, path) ==
    [k \in 1..Len(globalFolders) |-> Join(globalFolders[k], path)]
    \o [k \in 1..Len(AncestorChain(start)) |->
           Join(NodeModulesOf(AncestorChain(start)[k]), path)]

\* the candidate is the place itself, with an extension or not, or below it
Belongs(cand, place) ==
    \/ cand = place
    \/ cand = AddExt(place, ".js") \/ cand = AddExt(place, ".json")
    \/ Len(cand) > Len(place) /\ SubSeq(cand, 1, Len(place)) = place

IsBare(origPath) == origPath # EmptyString /\ ~IsRelative(origPath)

\* the candidates loadModule was called for by the resolve call from i to j
Tried(i, j) ==
    {u \in (i + 1)..(j - 1) :
        log[u].ev = "loadModule" /\ log[u].depth = log[i].depth}

SearchInOrder(i, j, places) ==
    /\ \A u \in Tried(i, j) :
           \E a \in 1..Len(places) : Belongs(log[u].path, places[a])
    /\ \A u \in Tried(i, j) : \A v \in Tried(i, j) :
           u < v => \E a \in 1..Len(places) : \E b \in a..Len(places) :
                        /\ Belongs(log[u].path, places[a])
                        /\ Belongs(log[v].path, places[b])
    /\ log[j].err = nil =>
           \E u \in Tried(i, j) :
               /\ log[u].err = nil /\ log[u].h = log[j].h
               /\ \A v \in Tried(i, j) : v # u => (v < u /\ log[v].err # nil)
               /\ \A k \in (u + 1)..j :
                      ~(/\ log[k].ev \in {"getSource", "getCompiledSource"}
                        /\ log[k].depth = log[i].depth)
               /\ \A a \in 1..Len(places) :
                      (\A b \in 1..a : ~Belongs(log[u].path, places[b])) =>
                          \E v \in Tried(i, j) : Belongs(log[v].path, places[a])
    /\ log[j].err # nil =>
           \A a \in 1..Len(places) :
               \E v \in Tried(i, j) : Belongs(log[v].path, places[a])

FoundBetween(i, j, places) ==
    \E u \in Tried(i, j) : \E a \in 1..Len(places) :
        /\ log[u].err = nil /\ log[u].h = log[j].h
        /\ Belongs(log[u].path, places[a])
        /\ \E v \in Tried(i, j) : \E b \in 1..(a - 1) :
               log[v].err # nil /\ Belongs(log[v].path, places[b])
        /\ \E b \in (a + 1)..Len(places) : \E file \in fs :
               Belongs(file, places[b])

Natives == RegistryNative \cup GlobalNative

C8_NativeFirst ==
    \A i \in Idx :
        (log[i].ev = "require" /\ log[i].path \in Natives) =>
            LET j == ReturnOf(i) IN
            /\ log[j].err = nil
            /\ IsNativeModule(log[j].h)
            /\ heap[log[j].h].origin = log[i].path
            /\ \A k \in i..j :
                   log[k].ev \notin {"getSource", "getCompiledSource"}

\* ------------------------------------------------------------------------
\* C9: the native lookup matches the specifier as written: "./name" loads
\* the local file name, "name" the native module.
\* ------------------------------------------------------------------------
C9_NativeByOriginalSpecifier ==
    \A i \in Idx :
        /\ (/\ IsReturn(i) /\ IsRelative(log[i].path)
            /\ filepathClean(log[i].path) \in Natives
            /\ Loadable(Named(log[i].aux, log[i].path))) =>
               /\ log[i].err = nil
               /\ IsFileModule(log[i].h)
               /\ heap[log[i].h].origin = Named(log[i].aux, log[i].path)
        /\ (IsReturn(i) /\ log[i].path \in Natives) =>
               IsNativeModule(log[i].h)

\* ------------------------------------------------------------------------
\* C10: a directory whose manifest names a main that loads yields the module
\* of directory/main; directory/index.js is neither loaded nor run.
\* ------------------------------------------------------------------------
MainOf(manifest) == Join(Dir(manifest), Unmarshal(manifest).module)

\* at i the manifest of a directory was read, and it names a loadable main
\* other than the index of the directory
ReadMain(i) ==
    /\ log[i].ev = "getSource" /\ log[i].err = nil
    /\ Unmarshal(log[i].path).err = nil
    /\ Unmarshal(log[i].path).module # EmptyString
    /\ Loadable(MainOf(log[i].path))
    /\ MainOf(log[i].path) # Join(Dir(log[i].path), <<"index.js">>)

C10_MainBeforeIndex ==
    \A i \in Idx :
        ReadMain(i) =>
            LET j == ReturnOf(i) IN
            /\ log[j].err = nil
            /\ IsFileModule(log[j].h)
            /\ heap[log[j].h].origin = MainOf(log[i].path)
            /\ \A k \in i..j :
                   log[k].depth = log[i].depth =>
                       log[k].path # Join(Dir(log[i].path), <<"index.js">>)

\* the directory has an index.js too
C10_Witness ==
    \E i \in Idx :
        /\ ReadMain(i)
        /\ Join(Dir(log[i].path), <<"index.js">>) \in fs
        /\ log[ReturnOf(i)].err = nil

\* ------------------------------------------------------------------------
\* One load as file or directory in the log: from its first event i to the
\* return of the resolve call or the next load as file or directory.
\* ------------------------------------------------------------------------
SegEnd(i) ==
    CHOOSE j \in Idx :
        /\ j > i /\ log[j].depth = log[i].depth
        /\ log[j].ev \in {"return", "loadAsFileOrDirectory"}
        /\ \A k \in (i + 1)..(j - 1) :
               ~(/\ log[k].depth = log[i].depth
                 /\ log[k].ev \in {"return", "loadAsFileOrDirectory"})

\* the events of the load itself, not of the bodies it runs
SameLevel(i) ==
    {k \in (i + 1)..(SegEnd(i) - 1) : log[k].depth = log[i].depth}

Loads(i) == {k \in SameLevel(i) : log[k].ev = "loadModule"}

\* the load ends the resolve call, which returns the module of event u
Returns(i, u) ==
    /\ \A k \in SameLevel(i) : k <= u
    /\ log[SegEnd(i)].ev = "return"
    /\ log[SegEnd(i)].err = nil
    /\ log[SegEnd(i)].h = log[u].h

\* ------------------------------------------------------------------------
\* C11: a directory whose manifest is absent, is no JSON, or has no main is
\* loaded from its index.js, or else from its index.json; nothing else in
\* the directory is tried.
\* ------------------------------------------------------------------------
NoMain(i) ==
    /\ log[i].ev = "getSource"
    /\ \/ log[i].err # nil
       \/ Unmarshal(log[i].path).err # nil
       \/ Unmarshal(log[i].path).module = EmptyString

IndexJs(i) == Join(Dir(log[i].path), <<"index.js">>)
IndexJson(i) == Join(Dir(log[i].path), <<"index.json">>)

C11_IndexFallback ==
    \A i \in Idx :
        NoMain(i) =>
            /\ \A k \in SameLevel(i) : log[k].path \in {IndexJs(i), IndexJson(i)}
            /\ \E u \in Loads(i) :
                   /\ log[u].path = IndexJs(i)
                   /\ \A k \in SameLevel(i) : k < u => log[k].path = IndexJs(i)
                   /\ log[u].err = nil => Returns(i, u)
                   /\ log[u].err # nil =>
                          \E v \in Loads(i) :
                              /\ v > u /\ log[v].path = IndexJson(i)
                              /\ \A k \in SameLevel(i) : k <= v
                              /\ log[v].err = nil => Returns(i, v)
            /\ Cardinality(Loads(i)) <= 2

\* a manifest that is no JSON, in a directory with both index files
C11_Witness ==
    \E i \in Idx :
        /\ NoMain(i) /\ log[i].err = nil
        /\ Unmarshal(log[i].path).err # nil
        /\ IndexJs(i) \in fs /\ IndexJson(i) \in fs
        /\ \E u \in Loads(i) : log[u].path = IndexJs(i) /\ Returns(i, u)

\* ------------------------------------------------------------------------
\* C12: a native loader that runs is the registry's own when the registry
\* has one for the name, the process-wide one only otherwise, and it runs
\* on a module object created for it by the call.
\* ------------------------------------------------------------------------
NativeRuns(evs, hp, before) ==
    \A i \in 1..Len(evs) :
        evs[i].ev = "native" =>
            /\ evs[i].path \in RegistryNative =>
                   (evs[i].aux = <<"registry">> /\ hp[evs[i].h].loader = "registry")
            /\ evs[i].path \notin RegistryNative =>
                   (/\ evs[i].path \in GlobalNative
                    /\ evs[i].aux = <<"global">>
                    /\ hp[evs[i].h].loader = "global")
            /\ evs[i].h > before
            /\ \A k \in 1..(i - 1) : evs[k].h # evs[i].h
            /\ hp[evs[i].h].exports = 1

C12_RegistryBeforeGlobal ==
    [][calls' = calls + 1 => NativeRuns(log', heap', Len(heap))]_vars

\* a name both tables have was required and its module returned
C12_Witness ==
    \E i \in Idx :
        /\ log[i].ev = "native"
        /\ log[i].path \in RegistryNative \cap GlobalNative
        /\ Outcome.err = nil /\ Outcome.h = log[i].h

\* ------------------------------------------------------------------------
\* C13: what a require returns depends on the specifier and the start
\* directory only: a relative specifier yields a module of a file-or-
\* directory candidate of join(start, path), a bare specifier that is no
\* native name a module of one of its search places; an entry of r.modules
\* whose key merely equals the normalized specifier is never returned.
\* ------------------------------------------------------------------------
FromOwnCandidate(i) ==
    /\ IsFileModule(log[i].h)
    /\ Belongs(heap[log[i].h].origin,
               Join(log[i].aux, filepathClean(log[i].path)))

FromOwnSearch(i) ==
    /\ IsFileModule(log[i].h)
    /\ \E a \in 1..Len(Places(log[i].aux, filepathClean(log[i].path))) :
           Belongs(heap[log[i].h].origin,
                   Places(log[i].aux, filepathClean(log[i].path))[a])

C13_ResolutionByStartOnly ==
    \A i \in Idx :
        (IsReturn(i) /\ log[i].err = nil) =>
            /\ IsRelative(log[i].path) => FromOwnCandidate(i)
            /\ (IsBare(log[i].path) /\ filepathClean(log[i].path) \notin Natives)
                   => FromOwnSearch(i)

\* ------------------------------------------------------------------------
\* C14: when the manifest of a directory names a main and none of main,
\* main.js, main.json loads, only main/index.js and main/index.json are
\* tried after them; the index files of the directory itself are not, and
\* the load fails even when directory/index.js exists.
\* ------------------------------------------------------------------------
\* the candidates of a main, in the order of the claim
MainCandidates(m) ==
    <<m, AddExt(m, ".js"), AddExt(m, ".json"),
      Join(m, <<"index.js">>), Join(m, <<"index.json">>)>>

Pos(seq, x) == CHOOSE n \in 1..Len(seq) : seq[n] = x

\* at i a manifest was read whose main the provider has no file for
MainMissing(i) ==
    /\ log[i].ev = "getSource" /\ log[i].err = nil
    /\ Unmarshal(log[i].path).err = nil
    /\ Unmarshal(log[i].path).module # EmptyString
    /\ \A n \in 1..3 : MainCandidates(MainOf(log[i].path))[n] \notin fs

MainThenItsIndex(i, seq) ==
    /\ \A k \in SameLevel(i) :
           /\ \E n \in 1..Len(seq) : seq[n] = log[k].path
           /\ log[k].path \notin {IndexJs(i), IndexJson(i)}
    /\ \A n \in 1..3 :
           \E u \in Loads(i) : log[u].path = seq[n] /\ log[u].err # nil
    /\ \E u \in Loads(i) :
           /\ log[u].path = seq[4]
           /\ log[u].err = nil => Returns(i, u)
           /\ log[u].err # nil =>
                  \E v \in Loads(i) : /\ log[v].path = seq[5]
                                      /\ log[v].err = nil => Returns(i, v)
    /\ \A u \in Loads(i) : \A v \in Loads(i) :
           u < v => Pos(seq, log[u].path) < Pos(seq, log[v].path)
    /\ (seq[4] \notin fs /\ seq[5] \notin fs /\ log[SegEnd(i)].ev = "return")
           => log[SegEnd(i)].err # nil

C14_MainIndexOnly ==
    \A i \in Idx :
        MainMissing(i) =>
            MainThenItsIndex(i, MainCandidates(MainOf(log[i].path)))

\* the directory has an index.js, and the require fails
C14_Witness ==
    \E i \in Idx :
        /\ MainMissing(i) /\ IndexJs(i) \in fs
        /\ log[SegEnd(i)].ev = "return" /\ log[SegEnd(i)].err # nil

\* ------------------------------------------------------------------------
\* C15: a load as file or directory tries the path itself, then path.js,
\* then path.json and only then the directory; the first that loads is the
\* module returned and nothing is requested or run after it.
\* ------------------------------------------------------------------------
\* the place of the k-th event's path in the order of the load started at i
Rank(i, k) ==
    IF log[k].path = log[i].path THEN 1
    ELSE IF log[k].path = AddExt(log[i].path, ".js") THEN 2
    ELSE IF log[k].path = AddExt(log[i].path, ".json") THEN 3
    ELSE 4

C15_FileBeforeDirectory ==
    \A i \in Idx :
        log[i].ev = "loadAsFileOrDirectory" =>
            /\ \E u \in Loads(i) : Rank(i, u) = 1
            /\ \A a \in SameLevel(i) : \A b \in SameLevel(i) :
                   a < b => Rank(i, a) <= Rank(i, b)
            /\ \A k \in SameLevel(i) : \A r \in 1..(Rank(i, k) - 1) :
                   \E v \in Loads(i) :
                       v < k /\ Rank(i, v) = r /\ log[v].err # nil
            /\ \A u \in Loads(i) : log[u].err = nil => Returns(i, u)

\* path.js loaded while path.json and the directory's index exist too
C15_Witness ==
    \E i \in Idx :
        /\ log[i].ev = "loadAsFileOrDirectory"
        /\ AddExt(log[i].path, ".json") \in fs
        /\ Join(log[i].path, <<"index.js">>) \in fs
        /\ \E u \in Loads(i) : Rank(i, u) = 2 /\ Returns(i, u)

\* ------------------------------------------------------------------------
\* C16: from every start directory the node_modules ascent tries finitely
\* many candidates: it stops at the directory that is its own parent or is
\* "..", and a search in which nothing loaded returns the error of
\* loadNodeModules.
\* ------------------------------------------------------------------------
\* the loads as file or directory of the search of the require at i
Steps(i) ==
    {k \in (i + 1)..(ReturnOf(i) - 1) :
        log[k].ev = "loadAsFileOrDirectory" /\ log[k].depth = log[i].depth}

IsSearch(i) ==
    log[i].ev = "require" /\ IsBare(log[i].path) /\ Steps(i) # {}

Terminal(dir) == dir = DotDot \/ Dir(dir) = dir

\* the last directory of the ascent from start
RECURSIVE TopOf(_)
TopOf(dir) == IF Terminal(dir) THEN dir ELSE TopOf(Dir(dir))

AscentStops(i, j, start, path) ==
    /\ Cardinality(Steps(i)) <= Len(globalFolders) + Len(start) + 1
    /\ log[j].err # nil =>
           /\ log[j].err = InvalidModuleError
           /\ Cardinality(Steps(i)) =
                  Len(globalFolders) + Len(AncestorChain(start))
           /\ \E k \in Steps(i) :
                  /\ \A u \in Steps(i) : u <= k
                  /\ log[k].path = Join(NodeModulesOf(TopOf(start)), path)

C16_AscentTerminates ==
    \A i \in Idx :
        IsSearch(i) =>
            AscentStops(i, ReturnOf(i), log[ReturnOf(i)].aux,
                        filepathClean(log[i].path))

\* a failed search from a directory below ".."
C16_Witness ==
    \E i \in Idx :
        /\ IsSearch(i) /\ log[ReturnOf(i)].err # nil
        /\ log[ReturnOf(i)].aux = <<"..", "x">>

\* ------------------------------------------------------------------------
\* C17: a module whose load completed is never evicted: every cache key
\* that maps to it keeps mapping to it, no entry an earlier call left is
\* removed, and a file module that completed stays cached under its path,
\* whatever fails around it.
\* ------------------------------------------------------------------------
Kept(m, hp, m2, hp2) ==
    /\ DOMAIN m \subseteq DOMAIN m2
    /\ \A k \in DOMAIN m :
           hp[m[k]].state = "complete" =>
               (m2[k] = m[k] /\ hp2[m[k]].state = "complete")

LoadedStayCached(m, hp) ==
    \A h \in 1..Len(hp) :
        (hp[h].loader = "file" /\ hp[h].state = "complete") =>
            Get(m, hp[h].origin) = h

RejectedAtOnce(evs) ==
    /\ Len(evs) = 2
    /\ evs[1].ev = "require" /\ evs[2].ev = "return"
    /\ evs[2].err = IllegalModuleNameError /\ evs[2].h = 0

C18_EmptySpecifierRejected ==
    [][(calls' = calls + 1 /\ filepathClean(log'[1].path) = EmptyString) =>
           /\ RejectedAtOnce(log')
           /\ modules' = modules /\ nodeModules' = nodeModules
           /\ heap' = heap]_vars

\* the empty specifier was required when the caches held modules
C18_Witness ==
    /\ Called0 /\ filepathClean(log[1].path) = EmptyString
    /\ Outcome.err = IllegalModuleNameError
    /\ modules # EmptyMap /\ nodeModules # EmptyMap

\* ------------------------------------------------------------------------
\* C19: within one require call of the host the body of a file starts at
\* most once, and no search tries the same candidate path twice.
\* ------------------------------------------------------------------------
C19_BodyOncePerCall ==
    /\ \A a \in Idx : \A b \in Idx :
           (/\ log[a].ev = "call" /\ log[b].ev = "call"
            /\ log[a].path = log[b].path) => a = b
    /\ \A i \in Idx :
           log[i].ev = "require" =>
               \A u \in Tried(i, ReturnOf(i)) : \A v \in Tried(i, ReturnOf(i)) :
                   log[u].path = log[v].path => u = v

====
